---- MODULE Spec2Model ----
(***************************************************************************)
(* State-machine model of rt_4d_flasher.py: the RT4DFlasher serial         *)
(* protocol engine (append_checksum, check_bootloader_mode,                *)
(* cmd_erase_flash, cmd_write_flash, flash_firmware) and the __main__      *)
(* driver that runs one flashing session.                                  *)
(*                                                                         *)
(* The serial line is modelled as two queues: bytes the radio has emitted  *)
(* that have not reached the host yet (inflight) and the host's input      *)
(* buffer (rx); src records, for each byte on the line, the frame the      *)
(* radio sent it in answer to.  The firmware image is kept as a descriptor *)
(* (number of raw bytes, number of appended zero bytes); a 1024-byte block *)
(* is materialised as a byte sequence when its frame is built, and wire    *)
(* holds the frame written last.  Serial.write is taken to complete;       *)
(* Serial.read(n) returns n bytes once they are buffered and otherwise     *)
(* what has arrived when its timeout expires.                              *)
(***************************************************************************)
EXTENDS Integers, Sequences, FiniteSets, TLC

\* ------------------------------------------------------------------ bounds
\* Longest byte list handed to append_checksum in SpecCodec.
MaxPayloadLen == 3
\* append_checksum is called at most this many times on one list in SpecCodec.
MaxCalls == 2
\* SpecWrite calls cmd_write_flash with blocks of 0..MaxChunkDelta bytes and
\* of WRITE_BLOCK_SIZE +- 0..MaxChunkDelta bytes.
MaxChunkDelta == 3

\* SpecChatter: the radio sends unsolicited bytes while at most this many
\* bytes wait in the host's input buffer.
MaxBacklog == 2
\* SpecChatter: data_read grows with every byte the draining passes read;
\* the radio's unsolicited bytes are followed until data_read holds this many.
MaxDataRead == 5

\* ------------------------------------------------- class constants (9-15)
ACK_RESPONSE == <<6>>
FLASH_MODE_RESPONSE == 255
CMD_ERASE_FLASH == 57
CMD_READ_FLASH == 82
CMD_WRITE_FLASH == 87
WRITE_BLOCK_SIZE == 1024
MEMORY_SIZE == 251904

Min(a, b) == IF a < b THEN a ELSE b
Max(a, b) == IF a > b THEN a ELSE b

\* ------------------------------------------------------------ Python bits
\* sum(data) of a list of ints: s[a] + ... + s[b], eight elements at a time
\* and by halves above that, which keeps the recursion shallow for the
\* 1027 bytes of a write frame.
At(s, i, b) == IF i <= b THEN s[i] ELSE 0
RECURSIVE SumRange(_, _, _)
SumRange(s, a, b) ==
    IF b - a < 8
    THEN At(s, a, b) + At(s, a + 1, b) + At(s, a + 2, b) + At(s, a + 3, b)
         + At(s, a + 4, b) + At(s, a + 5, b) + At(s, a + 6, b) + At(s, a + 7, b)
    ELSE LET m == (a + b) \div 2 IN SumRange(s, a, m) + SumRange(s, m + 1, b)

sum(s) == SumRange(s, 1, Len(s))

\* len(range(0, stop, step)) for stop >= 0, step > 0.
RangeLen(stop, step) == (stop + step - 1) \div step

\* Mutant of ChecksumByte: the sum is not reduced modulo 256.
ChecksumByteNoWrap(data) == sum(data) + 72

\* The checksum byte appended by append_checksum (line 19).
ChecksumByte(data) == (sum(data) + 72) % 256

\* append_checksum (17-20): the list after data.append(...); the value
\* returned is bytearray(data), the same bytes.
append_checksum(data) == Append(data, ChecksumByte(data))

\* ------------------------------------------------------- firmware image
\* Byte idx (0-based) of the firmware file: a fixed non-zero pattern, so that
\* file bytes and padding bytes differ.
RawByte(idx) == 1 + (idx % 255)

\* fw_bytes is [raw |-> number of file bytes, pad |-> zero bytes appended].
FwLen(b) == b.raw + b.pad

\* Mutant of FwByte: the image is padded with 0xFF bytes.
FwBytePadFF(b, idx) == IF idx < b.raw THEN RawByte(idx) ELSE 255

FwByte(b, idx) == IF idx < b.raw THEN RawByte(idx) ELSE 0

\* fw_bytes[lo : hi] for 0 <= lo <= hi: Python clamps both ends to the length.
SliceFrom(b, lo) == Min(lo, FwLen(b))
SliceTo(b, hi) == Min(hi, FwLen(b))
SliceBytes(b, from, to) == [j \in 1..(to - from) |-> FwByte(b, from + j - 1)]

\* Firmware file lengths a session is run with: empty, short, exact, oversize.
FwLens == {0, 100, MEMORY_SIZE, MEMORY_SIZE + 1}

\* ------------------------------------------------------------------ state
VARIABLES
    pc,             \* position of the session in __main__ and the methods
    fw_len,         \* len(fw) of the firmware file (line 171)
    fw_bytes,       \* flash_firmware's image after padding
    padding_to_add, \* flash_firmware's padding_to_add
    chunks,         \* flash_firmware's chunk list: [offset, from, to)
    k,              \* number of chunks the write loop has finished
    total_bytes,    \* flash_firmware's total_bytes
    data_read,      \* check_bootloader_mode's data_read
    drain_i,        \* check_bootloader_mode's _i in range(8)
    mode,           \* what check_bootloader_mode returned: <<>> until it has
    rx,             \* host input buffer (in_waiting = Len(rx))
    inflight,       \* bytes emitted by the radio, not yet in rx
    sent,           \* history: summary of every frame written, in order
    resp,           \* history: what the read following each frame returned
    outcome,        \* how the process ended: exit code and message
    wire,           \* the bytes of the frame written last
    src,            \* for each byte of rx \o inflight: the frame it answers
    last_src,       \* src of the bytes the read logged last in resp returned
    data,           \* codec: the caller's list passed to append_checksum
    frame,          \* codec: the value append_checksum returned
    orig,           \* codec: the caller's list as it was before the call
    calls           \* codec: number of append_checksum calls made on data

sessionVars == <<pc, fw_len, fw_bytes, padding_to_add, chunks, k, total_bytes,
                 data_read, drain_i, mode, rx, inflight, sent, resp, outcome,
                 wire, src, last_src>>
codecVars == <<data, frame, orig, calls>>
vars == <<pc, fw_len, fw_bytes, padding_to_add, chunks, k, total_bytes,
          data_read, drain_i, mode, rx, inflight, sent, resp, outcome,
          wire, src, last_src, data, frame, orig, calls>>

\* ------------------------------------------------------------ serial line
\* What the radio may answer to a probe and to an erase or write frame.
ProbeReplies == {<<>>, <<21, 21, 21, 21>>, <<255, 6>>}
AckReplies == {<<>>, <<6>>, <<21>>}
\* Bytes already waiting in the input buffer when the session starts.
StaleInputs == {<<>>, <<6>>, <<255, 6>>}

\* Both queues once the process has ended: leaving the "with" block of
\* __main__ (167) closes the port, whatever way the block is left.
Closed == <<>>

\* Serial.read(n) with a timeout: n bytes once n are buffered, otherwise
\* whatever has arrived when the timeout expires (possibly nothing).
ReadBytes(n) == IF Len(rx) >= n THEN SubSeq(rx, 1, n) ELSE rx
ReadRest(n) == IF Len(rx) >= n THEN SubSeq(rx, n + 1, Len(rx)) ELSE <<>>

\* The radio answers frame number i of the session with the bytes r: each of
\* them is an answer to frame i.  Bytes that answer no frame carry 0.
Tags(r, i) == [j \in 1..Len(r) |-> i]
\* The sources of the bytes ReadBytes(n) returns and of those it leaves.
ReadSrc(n) == SubSeq(src, 1, Min(n, Len(rx)))
RestSrc(n) == SubSeq(src, Min(n, Len(rx)) + 1, Len(src))

\* What the history keeps of a frame: its first bytes, its length, its last
\* byte.
FrameSummary(f) ==
    [head |-> SubSeq(f, 1, Min(4, Len(f))), n |-> Len(f), cks |-> f[Len(f)]]

\* --------------------------------------------------------------- outcomes
Running == [code |-> -1, msg |-> ""]
ExitOk == [code |-> 0, msg |-> "All OK!"]
ExitMode ==
    [code |-> 1, msg |-> "FAILED: Radio not on flashing mode, or not connected."]
ExitErase == [code |-> 1, msg |-> "FAILED: Could not erase radio memory."]
ExitMismatch ==
    [code |-> 1, msg |-> "FAILED: The amount of bytes written does not match the FW size padded"]
RaisedNameError ==
    [code |-> 1, msg |-> "NameError: name 'WRITE_BLOCK_SIZE' is not defined"]
RaisedAssertion ==
    [code |-> 1, msg |-> "AssertionError: FAILED: FW chunk does not have the correct size."]

\* ------------------------------------------------------ protocol decisions
\* The probe frame (27-28) and the erase frame of a part (51-56).
ProbeFrame == append_checksum(<<CMD_READ_FLASH, 0, 0>>)
EraseFrame(part) ==
    IF part = 0 THEN append_checksum(<<CMD_ERASE_FLASH, 51, 5, 16>>)
    ELSE append_checksum(<<CMD_ERASE_FLASH, 51, 5, 85>>)

\* Mutant of BootloaderResult: any byte received counts as bootloader mode.
BootloaderResultAny(d) == d # <<>>

\* Mutant of BootloaderResult: an empty read counts as bootloader mode.
BootloaderResultLenient(d) ==
    IF d = <<>> THEN TRUE ELSE d[1] = FLASH_MODE_RESPONSE

\* Return value of check_bootloader_mode (43-48).
BootloaderResult(d) == IF d = <<>> THEN FALSE ELSE d[1] = FLASH_MODE_RESPONSE

\* Mutant of EraseResult: any byte received counts as the ACK.
EraseResultAny(response) == response # <<>>

\* Return value of _cmd_erase_flash (63-68) and of cmd_write_flash (91-94).
EraseResult(response) ==
    IF response = <<>> THEN FALSE ELSE response = ACK_RESPONSE

\* Mutant of WriteResult: any byte received counts as the ACK.
WriteResultAny(response) == response # <<>>

WriteResult(response) ==
    IF response = <<>> THEN FALSE ELSE response = ACK_RESPONSE

\* Mutant of AfterErase: the upper bank is erased whatever the lower bank
\* answered ("and" evaluated without short-circuit).
AfterEraseBoth(part, ok) ==
    IF part = 0 THEN "erase_write_1"
    ELSE IF ok THEN "flash_begin" ELSE "exit"

\* Where the session goes after the erase of a part returned ok:
\* cmd_erase_flash's short-circuit "and" (71) and __main__'s exit (177-178).
AfterErase(part, ok) ==
    IF ~ok THEN "exit"
    ELSE IF part = 0 THEN "erase_write_1" ELSE "flash_begin"

\* The write frame of cmd_write_flash (83-85).
WriteFrame(offset, bytes_128) ==
    append_checksum(
        <<CMD_WRITE_FLASH, (offset \div 256) % 256, offset % 256>> \o bytes_128)

\* Mutant of PaddingToAdd: the padding is never negative.
PaddingToAddClamped(n) == IF n # 0 THEN Max(MEMORY_SIZE - n, 0) ELSE 0

\* flash_firmware's padding_to_add (97-99).
PaddingToAdd(n) == IF n # 0 THEN MEMORY_SIZE - n ELSE 0

\* Mutant of Padded: the zero bytes are never appended.
PaddedNot(n, padding) == [raw |-> n, pad |-> 0]

\* fw_bytes after "fw_bytes += bytearray([0x0] * padding_to_add)" (101-106):
\* a list multiplied by a negative number is empty.
Padded(n, padding) ==
    IF padding # 0 THEN [raw |-> n, pad |-> Max(padding, 0)]
    ELSE [raw |-> n, pad |-> 0]

\* flash_firmware's chunk list (108-111): entry j is the slice
\* fw_bytes[offset : offset + WRITE_BLOCK_SIZE], kept as its bounds.
ChunkAt(b, offset) ==
    [offset |-> offset,
     from |-> SliceFrom(b, offset),
     to |-> SliceTo(b, offset + WRITE_BLOCK_SIZE)]
Chunks(b) ==
    [j \in 1..RangeLen(MEMORY_SIZE, WRITE_BLOCK_SIZE) |->
        ChunkAt(b, (j - 1) * WRITE_BLOCK_SIZE)]
ChunkLen(c) == c.to - c.from

\* Mutant of BadChunkSize: only blocks that are too long are refused.
BadChunkSizeLong(n) == n > WRITE_BLOCK_SIZE

\* The length test of cmd_write_flash (75).
BadChunkSize(n) == n # WRITE_BLOCK_SIZE

\* __main__'s final comparison (182-183).
SizeMismatch(flashed_bytes, n, added_padding) == flashed_bytes # n + added_padding

\* What the mismatch branch does (184-191): building the message evaluates
\* the undefined global name WRITE_BLOCK_SIZE, so sys.exit is never reached.
MismatchExit == RaisedNameError

\* ------------------------------------------------------------------- Init
\* __main__ 167-172: the port is open, the firmware file has been read.
Init ==
    /\ pc = "discard"
    /\ fw_len \in FwLens
    /\ fw_bytes = [raw |-> fw_len, pad |-> 0]
    /\ padding_to_add = 0
    /\ chunks = <<>>
    /\ k = 0
    /\ total_bytes = 0
    /\ data_read = <<>>
    /\ drain_i = 0
    /\ mode = <<>>
    /\ rx \in StaleInputs
    /\ inflight = <<>>
    /\ sent = <<>>
    /\ resp = <<>>
    /\ outcome = Running
    /\ wire = <<>>
    /\ src = Tags(rx, 0)
    /\ last_src = <<>>
    /\ data = <<>>
    /\ frame = <<>>
    /\ orig = <<>>
    /\ calls = 0

\* ---------------------------------------------------------------- actions
\* A byte emitted by the radio reaches the host's input buffer.  After the
\* session's last read nothing looks at the buffer any more, so arrivals are
\* followed only up to there.
Deliver ==
    /\ pc \notin {"finish", "exit"}
    /\ inflight # <<>>
    /\ rx' = Append(rx, Head(inflight))
    /\ inflight' = Tail(inflight)
    /\ UNCHANGED <<pc, fw_len, fw_bytes, padding_to_add, chunks, k,
                   total_bytes, data_read, drain_i, mode, sent, resp, outcome,
                   wire, src, last_src>>
    /\ UNCHANGED codecVars

\* check_bootloader_mode 24-25: while self.in_waiting: self.read()
Discard ==
    /\ pc = "discard"
    /\ IF Len(rx) # 0
       THEN /\ rx' = ReadRest(1)
            /\ src' = RestSrc(1)
            /\ pc' = pc
       ELSE /\ rx' = rx
            /\ src' = src
            /\ pc' = "probe_write"
    /\ UNCHANGED <<fw_len, fw_bytes, padding_to_add, chunks, k, total_bytes,
                   data_read, drain_i, mode, inflight, sent, resp, outcome,
                   wire, last_src>>
    /\ UNCHANGED codecVars

\* check_bootloader_mode 27-32: build and write the probe; the radio emits
\* its answer.
ProbeWrite ==
    /\ pc = "probe_write"
    /\ wire' = ProbeFrame
    /\ sent' = Append(sent, FrameSummary(ProbeFrame))
    /\ \E r \in ProbeReplies :
          /\ inflight' = inflight \o r
          /\ src' = src \o Tags(r, Len(sent) + 1)
    /\ pc' = "probe_read"
    /\ UNCHANGED <<fw_len, fw_bytes, padding_to_add, chunks, k, total_bytes,
                   data_read, drain_i, mode, rx, resp, outcome, last_src>>
    /\ UNCHANGED codecVars

\* check_bootloader_mode 34: data_read = bytearray(self.read(4))
ProbeRead ==
    /\ pc = "probe_read"
    /\ data_read' = ReadBytes(4)
    /\ rx' = ReadRest(4)
    /\ resp' = Append(resp, ReadBytes(4))
    /\ src' = RestSrc(4)
    /\ last_src' = ReadSrc(4)
    /\ drain_i' = 0
    /\ pc' = "flush"
    /\ UNCHANGED <<fw_len, fw_bytes, padding_to_add, chunks, k, total_bytes,
                   mode, inflight, sent, outcome, wire>>
    /\ UNCHANGED codecVars

\* check_bootloader_mode 39-41: for _i in range(8): while self.in_waiting:
\* data_read += bytearray(self.read())
Flush ==
    /\ pc = "flush"
    /\ drain_i < 8
    /\ IF Len(rx) # 0
       THEN /\ data_read' = data_read \o ReadBytes(1)
            /\ rx' = ReadRest(1)
            /\ src' = RestSrc(1)
            /\ drain_i' = drain_i
       ELSE /\ data_read' = data_read
            /\ rx' = rx
            /\ src' = src
            /\ drain_i' = drain_i + 1
    /\ UNCHANGED <<pc, fw_len, fw_bytes, padding_to_add, chunks, k,
                   total_bytes, mode, inflight, sent, resp, outcome,
                   wire, last_src>>
    /\ UNCHANGED codecVars

\* check_bootloader_mode 43-48 and __main__ 174-175.
ModeCheck ==
    /\ pc = "flush"
    /\ drain_i = 8
    /\ IF BootloaderResult(data_read)
       THEN /\ pc' = "erase_write_0"
            /\ outcome' = outcome
            /\ UNCHANGED <<rx, inflight, src>>
       ELSE /\ pc' = "exit"
            /\ outcome' = ExitMode
            /\ rx' = Closed
            /\ inflight' = Closed
            /\ src' = Closed
    /\ mode' = <<BootloaderResult(data_read)>>
    /\ UNCHANGED <<fw_len, fw_bytes, padding_to_add, chunks, k, total_bytes,
                   data_read, drain_i, sent, resp, wire, last_src>>
    /\ UNCHANGED codecVars

\* _cmd_erase_flash 51-60: build and write the erase frame of a part.
EraseWrite(part) ==
    /\ pc = (IF part = 0 THEN "erase_write_0" ELSE "erase_write_1")
    /\ wire' = EraseFrame(part)
    /\ sent' = Append(sent, FrameSummary(EraseFrame(part)))
    /\ \E r \in AckReplies :
          /\ inflight' = inflight \o r
          /\ src' = src \o Tags(r, Len(sent) + 1)
    /\ pc' = (IF part = 0 THEN "erase_read_0" ELSE "erase_read_1")
    /\ UNCHANGED <<fw_len, fw_bytes, padding_to_add, chunks, k, total_bytes,
                   data_read, drain_i, mode, rx, resp, outcome, last_src>>
    /\ UNCHANGED codecVars

\* Mutant of EraseRead: the method goes on without reading the answer.
EraseReadSkipped(part) ==
    /\ pc = (IF part = 0 THEN "erase_read_0" ELSE "erase_read_1")
    /\ pc' = AfterErase(part, TRUE)
    /\ UNCHANGED <<fw_len, fw_bytes, padding_to_add, chunks, k, total_bytes,
                   data_read, drain_i, mode, rx, inflight, sent, resp, outcome,
                   wire, src, last_src>>
    /\ UNCHANGED codecVars

\* _cmd_erase_flash 61-68, cmd_erase_flash 71, __main__ 177-178.
EraseRead(part) ==
    /\ pc = (IF part = 0 THEN "erase_read_0" ELSE "erase_read_1")
    /\ resp' = Append(resp, ReadBytes(1))
    /\ last_src' = ReadSrc(1)
    /\ pc' = AfterErase(part, EraseResult(ReadBytes(1)))
    /\ IF AfterErase(part, EraseResult(ReadBytes(1))) = "exit"
       THEN /\ outcome' = ExitErase
            /\ rx' = Closed
            /\ inflight' = Closed
            /\ src' = Closed
       ELSE /\ outcome' = outcome
            /\ rx' = ReadRest(1)
            /\ inflight' = inflight
            /\ src' = RestSrc(1)
    /\ UNCHANGED <<fw_len, fw_bytes, padding_to_add, chunks, k, total_bytes,
                   data_read, drain_i, mode, sent, wire>>
    /\ UNCHANGED codecVars

\* flash_firmware 97-113: padding, chunk list, total_bytes = 0.
FlashBegin ==
    /\ pc = "flash_begin"
    /\ padding_to_add' = PaddingToAdd(fw_len)
    /\ fw_bytes' = Padded(fw_len, PaddingToAdd(fw_len))
    /\ chunks' = Chunks(Padded(fw_len, PaddingToAdd(fw_len)))
    /\ total_bytes' = 0
    /\ k' = 0
    /\ pc' = "write_send"
    /\ UNCHANGED <<fw_len, data_read, drain_i, mode, rx, inflight, sent, resp,
                   outcome, wire, src, last_src>>
    /\ UNCHANGED codecVars

\* flash_firmware 114-115 and cmd_write_flash 75-88: the next chunk is
\* passed to cmd_write_flash, which raises on a wrong length and otherwise
\* builds and writes the frame.
WriteSend ==
    /\ pc = "write_send"
    /\ LET chunk == chunks[k + 1]
       IN IF BadChunkSize(ChunkLen(chunk))
          THEN /\ pc' = "exit"
               /\ outcome' = RaisedAssertion
               /\ rx' = Closed
               /\ inflight' = Closed
               /\ src' = Closed
               /\ sent' = sent
               /\ wire' = wire
          ELSE /\ wire' = WriteFrame(chunk.offset,
                                     SliceBytes(fw_bytes, chunk.from, chunk.to))
               /\ sent' = Append(sent, FrameSummary(wire'))
               /\ \E r \in AckReplies :
                     /\ inflight' = inflight \o r
                     /\ src' = src \o Tags(r, Len(sent) + 1)
               /\ pc' = "write_read"
               /\ outcome' = outcome
               /\ rx' = rx
    /\ UNCHANGED <<fw_len, fw_bytes, padding_to_add, chunks, k, total_bytes,
                   data_read, drain_i, mode, resp, last_src>>
    /\ UNCHANGED codecVars

\* Mutant of LoopTotal: the chunk is counted before ok is tested.
LoopTotalAlways(ok, total, len) == total + len

\* Mutant of LoopNext: a chunk that was not ACKed is sent again.
LoopNextRetry(ok, done, n) ==
    IF ~ok THEN "write_send"
    ELSE IF done + 1 < n THEN "write_send" ELSE "finish"

\* The write loop after cmd_write_flash returned ok (125-128): the next
\* position, the chunks done and the bytes counted.
LoopNext(ok, done, n) ==
    IF ~ok THEN "finish"
    ELSE IF done + 1 < n THEN "write_send" ELSE "finish"
LoopTotal(ok, total, len) == IF ok THEN total + len ELSE total

\* cmd_write_flash 89-94 and flash_firmware 117-128.
WriteRead ==
    /\ pc = "write_read"
    /\ rx' = ReadRest(1)
    /\ src' = RestSrc(1)
    /\ last_src' = ReadSrc(1)
    /\ resp' = Append(resp, ReadBytes(1))
    /\ LET ok == WriteResult(ReadBytes(1))
       IN /\ pc' = LoopNext(ok, k, Len(chunks))
          /\ k' = (IF ok THEN k + 1 ELSE k)
          /\ total_bytes' = LoopTotal(ok, total_bytes, ChunkLen(chunks[k + 1]))
    /\ UNCHANGED <<fw_len, fw_bytes, padding_to_add, chunks, data_read,
                   drain_i, mode, inflight, sent, outcome, wire>>
    /\ UNCHANGED codecVars

\* flash_firmware 130-131 and __main__ 181-193.
Finish ==
    /\ pc = "finish"
    /\ outcome' = (IF SizeMismatch(total_bytes, fw_len, padding_to_add)
                   THEN MismatchExit ELSE ExitOk)
    /\ pc' = "exit"
    /\ rx' = Closed
    /\ inflight' = Closed
    /\ src' = Closed
    /\ UNCHANGED <<fw_len, fw_bytes, padding_to_add, chunks, k, total_bytes,
                   data_read, drain_i, mode, sent, resp, wire, last_src>>
    /\ UNCHANGED codecVars

Next ==
    \/ Deliver
    \/ Discard
    \/ ProbeWrite
    \/ ProbeRead
    \/ Flush
    \/ ModeCheck
    \/ EraseWrite(0)
    \/ EraseRead(0)
    \/ EraseWrite(1)
    \/ EraseRead(1)
    \/ FlashBegin
    \/ WriteSend
    \/ WriteRead
    \/ Finish

Spec == Init /\ [][Next]_vars

\* ------------------------------------------- cmd_write_flash called directly
\* Block lengths and offsets SpecWrite passes to cmd_write_flash.
ChunkLens ==
    (0..MaxChunkDelta)
    \cup ((WRITE_BLOCK_SIZE - MaxChunkDelta)..(WRITE_BLOCK_SIZE + MaxChunkDelta))
ChunkOffsets == {0, 1024, 65536}

\* A caller holding an open port and one block of n bytes for offset o.
InitWrite ==
    /\ pc = "write_send"
    /\ fw_len \in ChunkLens
    /\ fw_bytes = [raw |-> fw_len, pad |-> 0]
    /\ padding_to_add = 0
    /\ \E o \in ChunkOffsets : chunks = <<[offset |-> o, from |-> 0, to |-> fw_len]>>
    /\ k = 0
    /\ total_bytes = 0
    /\ data_read = <<>>
    /\ drain_i = 0
    /\ mode = <<>>
    /\ rx \in StaleInputs
    /\ inflight = <<>>
    /\ sent = <<>>
    /\ resp = <<>>
    /\ outcome = Running
    /\ wire = <<>>
    /\ src = Tags(rx, 0)
    /\ last_src = <<>>
    /\ data = <<>>
    /\ frame = <<>>
    /\ orig = <<>>
    /\ calls = 0

NextWrite ==
    \/ WriteSend
    \/ WriteRead
    \/ Deliver

SpecWrite == InitWrite /\ [][NextWrite]_vars

\* ------------------------------------------ the write phase of a session
\* Firmware file lengths the write phase is run with: empty, one byte, short,
\* one byte into the second block, exact, oversize by one byte and by more
\* than a block.
FlashLens ==
    {0, 1, 100, WRITE_BLOCK_SIZE + 1, MEMORY_SIZE, MEMORY_SIZE + 1,
     MEMORY_SIZE + 2000}

\* __main__ at line 181: check_bootloader_mode has read 0xFF, both erase
\* frames have been ACKed, nothing is left in the input buffer.
InitFlash ==
    /\ pc = "flash_begin"
    /\ fw_len \in FlashLens
    /\ fw_bytes = [raw |-> fw_len, pad |-> 0]
    /\ padding_to_add = 0
    /\ chunks = <<>>
    /\ k = 0
    /\ total_bytes = 0
    /\ data_read = <<FLASH_MODE_RESPONSE>>
    /\ drain_i = 8
    /\ mode = <<TRUE>>
    /\ rx = <<>>
    /\ inflight = <<>>
    /\ sent = <<FrameSummary(ProbeFrame), FrameSummary(EraseFrame(0)),
                FrameSummary(EraseFrame(1))>>
    /\ resp = <<<<FLASH_MODE_RESPONSE>>, ACK_RESPONSE, ACK_RESPONSE>>
    /\ outcome = Running
    /\ wire = EraseFrame(1)
    /\ src = <<>>
    /\ last_src = <<3>>
    /\ data = <<>>
    /\ frame = <<>>
    /\ orig = <<>>
    /\ calls = 0

NextFlash ==
    \/ FlashBegin
    \/ WriteSend
    \/ WriteRead
    \/ Deliver
    \/ Finish

SpecFlash == InitFlash /\ [][NextFlash]_vars

\* ---------------------- check_bootloader_mode against a radio that chatters
\* A byte the radio sends unasked.
ChatterByte == 21

\* The radio sends a byte on its own while check_bootloader_mode runs; it
\* lands in the input buffer, behind what is buffered and ahead of what is
\* still on its way.
Chatter ==
    /\ pc \in {"discard", "probe_write", "probe_read", "flush"}
    /\ Len(rx) < MaxBacklog
    /\ Len(data_read) < MaxDataRead
    /\ rx' = Append(rx, ChatterByte)
    /\ src' = SubSeq(src, 1, Len(rx)) \o <<0>>
                 \o SubSeq(src, Len(rx) + 1, Len(src))
    /\ UNCHANGED <<pc, fw_len, fw_bytes, padding_to_add, chunks, k,
                   total_bytes, data_read, drain_i, mode, inflight, sent, resp,
                   outcome, wire, last_src>>
    /\ UNCHANGED codecVars

\* The steps of check_bootloader_mode and of __main__'s test of its result.
CheckBootloaderMode ==
    \/ Discard
    \/ ProbeWrite
    \/ ProbeRead
    \/ Flush
    \/ ModeCheck

NextChatter ==
    \/ CheckBootloaderMode
    \/ Deliver
    \/ Chatter

\* The program is one thread and every read and write returns within its
\* timeout: the method's next step is always taken in the end.  Nothing is
\* assumed of the radio.
SpecChatter == Init /\ [][NextChatter]_vars /\ WF_vars(CheckBootloaderMode)

\* ------------------------------------------- append_checksum called directly
\* Byte values the codec specification builds lists from: 183 + 72 = 255 and
\* 184 + 72 = 256 sit on the two sides of the wrap.
CodecBytes == {0, 1, 183, 184, 255}

RECURSIVE SeqsUpTo(_)
SeqsUpTo(n) ==
    IF n = 0 THEN {<<>>}
    ELSE LET shorter == SeqsUpTo(n - 1)
         IN shorter \cup {Append(s, b) : s \in {t \in shorter : Len(t) = n - 1},
                                         b \in CodecBytes}

\* A caller holding a list of byte values.
InitCodec ==
    /\ pc = "codec"
    /\ fw_len = 0
    /\ fw_bytes = [raw |-> 0, pad |-> 0]
    /\ padding_to_add = 0
    /\ chunks = <<>>
    /\ k = 0
    /\ total_bytes = 0
    /\ data_read = <<>>
    /\ drain_i = 0
    /\ mode = <<>>
    /\ rx = <<>>
    /\ inflight = <<>>
    /\ sent = <<>>
    /\ resp = <<>>
    /\ outcome = Running
    /\ wire = <<>>
    /\ src = Tags(rx, 0)
    /\ last_src = <<>>
    /\ data \in SeqsUpTo(MaxPayloadLen)
    /\ frame = <<>>
    /\ orig = data
    /\ calls = 0

\* append_checksum 18-20 called on the caller's list: data.append(...)
\* changes that list in place, bytearray(data) is a copy of it.
AppendChecksum ==
    /\ pc = "codec"
    /\ calls < MaxCalls
    /\ orig' = data
    /\ data' = append_checksum(data)
    /\ frame' = append_checksum(data)
    /\ calls' = calls + 1
    /\ UNCHANGED sessionVars

NextCodec == AppendChecksum

SpecCodec == InitCodec /\ [][NextCodec]_vars

\* ================================================================= claims
\* Reading the history.
IsProbe(f) == f.head[1] = CMD_READ_FLASH
IsErase(f) == f.head[1] = CMD_ERASE_FLASH
IsLower(f) == IsErase(f) /\ f.n = 5 /\ f.head[4] = 16
IsUpper(f) == IsErase(f) /\ f.n = 5 /\ f.head[4] = 85
IsWrite(f) == f.head[1] = CMD_WRITE_FLASH
Answered(i) == i <= Len(resp)
Acked(i) == Answered(i) /\ resp[i] = <<6>>
NumWrites == Cardinality({i \in 1..Len(sent) : IsWrite(sent[i])})
HasWrite == \E i \in 1..Len(sent) : IsWrite(sent[i])
\* The write loop has stopped on a chunk whose frame was not ACKed.
WriteFailed ==
    /\ pc \in {"finish", "exit"}
    /\ sent # <<>>
    /\ IsWrite(sent[Len(sent)])
    /\ Len(resp) = Len(sent)
    /\ resp[Len(resp)] # <<6>>

\* C1: the upper-bank erase frame (marker 0x55) is only ever sent directly
\* after the lower-bank erase frame (marker 0x10), and only when the byte read
\* in answer to the lower-bank frame was the ACK 0x06; after a timeout or any
\* other byte it is never sent.
C1_EraseOrder ==
    \A i \in 1..Len(sent) :
        IsUpper(sent[i]) =>
            /\ i > 1
            /\ IsLower(sent[i - 1])
            /\ Acked(i - 1)
            /\ \A j \in 1..(i - 1) : ~IsUpper(sent[j])

C1_Witness == \E i \in 1..Len(sent) : IsUpper(sent[i])

\* C2: a write frame is followed by another frame only if it was ACKed, and
\* when the loop stops on the first chunk that is not ACKed (a timeout or
\* another byte), chunk number NumWrites, the bytes written are
\* 1024 * (NumWrites - 1) and the run does not end in success.
C2_WriteShortCircuit ==
    /\ \A i \in 1..Len(sent) :
          (IsWrite(sent[i]) /\ i < Len(sent)) => Acked(i)
    /\ WriteFailed =>
          /\ NumWrites \in 1..246
          /\ total_bytes = 1024 * (NumWrites - 1)
          /\ outcome # ExitOk

C2_Witness == WriteFailed /\ pc = "exit" /\ NumWrites = 246

\* C3: when check_bootloader_mode has read no byte at all it returns False,
\* and as long as it has not returned True no erase frame and no write frame
\* has been sent.
C3_ModeFailure ==
    /\ (mode # <<>> /\ data_read = <<>>) => mode = <<FALSE>>
    /\ mode # <<TRUE>> =>
          \A i \in 1..Len(sent) : ~IsErase(sent[i]) /\ ~IsWrite(sent[i])

C3_Witness ==
    /\ pc = "exit"
    /\ mode = <<FALSE>>
    /\ data_read = <<>>
    /\ Len(sent) = 1
    /\ IsProbe(sent[1])

\* C4: a write frame (opcode 0x57) has been sent only if, before it, the
\* lower-bank and then the upper-bank erase frame were each answered with the
\* ACK 0x06.
C4_EraseBlocksWrite ==
    HasWrite =>
        \E i \in 1..Len(sent) : \E j \in 1..Len(sent) :
            /\ i < j
            /\ IsLower(sent[i]) /\ Acked(i)
            /\ IsUpper(sent[j]) /\ Acked(j)
            /\ \A w \in 1..j : ~IsWrite(sent[w])

C4_Witness == HasWrite /\ Acked(2) /\ Acked(3)

\* The transport answered the probe with bytes that start with 0xFF and
\* every erase and write frame with the ACK.
GoodTransport ==
    /\ Len(resp) = Len(sent)
    /\ data_read # <<>>
    /\ data_read[1] = 255
    /\ \A i \in 2..Len(resp) : resp[i] = <<6>>
\* The frames of a complete session: 1 probe, 2 erase, 246 write.
FullSession ==
    /\ Len(sent) = 249
    /\ IsProbe(sent[1])
    /\ IsLower(sent[2])
    /\ IsUpper(sent[3])
    /\ \A i \in 4..249 : IsWrite(sent[i]) /\ sent[i].n = 1028

\* C5 as stated: a run on a non-empty image of at most MEMORY_SIZE bytes with
\* such a transport ends having sent 1 probe, 2 erase and 246 write frames,
\* with 252928 bytes written and success.
C5_AsStated ==
    (pc = "exit" /\ fw_len \in 1..MEMORY_SIZE /\ GoodTransport) =>
        /\ FullSession
        /\ total_bytes = 252928
        /\ outcome = ExitOk

\* C5 amended: the same, with MEMORY_SIZE = 0x3D800 = 251904 = 246 * 1024
\* bytes written.
C5_EndToEnd ==
    (pc = "exit" /\ fw_len \in 1..MEMORY_SIZE /\ GoodTransport) =>
        /\ FullSession
        /\ total_bytes = 251904
        /\ total_bytes = MEMORY_SIZE
        /\ outcome = ExitOk

C5_Witness ==
    pc = "exit" /\ fw_len = 100 /\ GoodTransport /\ outcome = ExitOk

\* flash_firmware has computed its padding and its chunk list.
ImageReady == chunks # <<>>

\* C6: once flash_firmware has padded the image: an image shorter than
\* MEMORY_SIZE, the empty one included, has become exactly MEMORY_SIZE bytes
\* with padding_to_add = MEMORY_SIZE - len(raw); an image of MEMORY_SIZE bytes
\* has padding_to_add = 0.
C6_Padding ==
    ImageReady =>
        /\ fw_len < MEMORY_SIZE =>
              /\ FwLen(fw_bytes) = MEMORY_SIZE
              /\ padding_to_add = MEMORY_SIZE - fw_len
        /\ fw_len = MEMORY_SIZE => padding_to_add = 0

\* C7: for an image of at most MEMORY_SIZE bytes the chunk list has 246
\* entries, entry j at offset 1024 * (j - 1), each block exactly 1024 bytes,
\* the blocks being the consecutive ranges that cover [0, MEMORY_SIZE).
C7_ChunkPartition ==
    (ImageReady /\ fw_len <= MEMORY_SIZE) =>
        /\ Len(chunks) = 246
        /\ \A j \in 1..Len(chunks) :
              /\ chunks[j].offset = 1024 * (j - 1)
              /\ chunks[j].from = chunks[j].offset
              /\ chunks[j].to = chunks[j].offset + 1024
              /\ ChunkLen(chunks[j]) = 1024
        /\ chunks[Len(chunks)].to = MEMORY_SIZE

\* sum of a list, element by element.
RECURSIVE RefSum(_)
RefSum(s) == IF s = <<>> THEN 0 ELSE Head(s) + RefSum(Tail(s))

\* C8: the frame append_checksum returns is the bytes it was given followed
\* by exactly one byte, (sum of those bytes + 72) mod 256; the frame is
\* determined by the bytes given, so equal bytes give identical frames.
C8_Checksum ==
    calls > 0 =>
        /\ Len(frame) = Len(orig) + 1
        /\ SubSeq(frame, 1, Len(orig)) = orig
        /\ frame[Len(frame)] = (RefSum(orig) + 72) % 256
        /\ frame[Len(frame)] \in 0..255

C8_Witness ==
    /\ calls = 1
    /\ Len(orig) = MaxPayloadLen
    /\ RefSum(orig) + 72 >= 256
    /\ frame[Len(frame)] = 71

\* The session's erase phase failed / all of it succeeded.
EraseFailed ==
    /\ mode = <<TRUE>>
    /\ ~HasWrite
    /\ \E i \in 1..Len(sent) : IsErase(sent[i]) /\ Answered(i) /\ ~Acked(i)
AllAcked ==
    /\ mode = <<TRUE>>
    /\ FullSession
    /\ \A i \in 2..249 : Acked(i)

\* C9: the run ends with exit code 0 only if mode detection returned true,
\* both erase frames and all 246 write frames were ACKed; and it ends with a
\* nonzero exit code and the message of the case when the radio is not in
\* bootloader mode, when the erase failed, and when a write failed or the
\* byte count does not match at the end.
C9_RunOutcome ==
    pc = "exit" =>
        /\ outcome.code = 0 => AllAcked
        /\ mode = <<FALSE>> => outcome = ExitMode
        /\ EraseFailed => outcome = ExitErase
        /\ (WriteFailed \/ (mode = <<TRUE>> /\ HasWrite
                            /\ total_bytes # fw_len + padding_to_add))
              => outcome = ExitMismatch

\* C10: cmd_write_flash given a block whose length is not 1024 raises
\* without having written a frame or read a byte, and every write frame that
\* was written carries exactly 1024 data bytes.
C10_FailFast ==
    /\ (ChunkLen(chunks[1]) # 1024 /\ pc # "write_send") =>
          /\ outcome = RaisedAssertion
          /\ sent = <<>>
          /\ resp = <<>>
          /\ inflight = <<>>
          /\ rx = <<>>
    /\ \A i \in 1..Len(sent) : IsWrite(sent[i]) => sent[i].n = 1024 + 4

C10_Witness ==
    /\ pc = "exit"
    /\ outcome = RaisedAssertion
    /\ ChunkLen(chunks[1]) = 1023

\* The session is about to write a frame.
AboutToWrite ==
    pc \in {"probe_write", "erase_write_0", "erase_write_1", "write_send"}

\* C11: at most one frame is unanswered at any time, and whenever the
\* session is about to write a frame, the read after every frame written
\* before has returned (with bytes or empty, by timeout).
C11_NoPipelining ==
    /\ Len(sent) - Len(resp) \in {0, 1}
    /\ AboutToWrite => Len(resp) = Len(sent)

C11_Witness ==
    /\ pc = "write_read"
    /\ Len(sent) = 5
    /\ Len(resp) = 4
    /\ resp[1] = <<>>

\* Write frames follow the probe and the two erase frames (C4): the write
\* frame at position i of the history is for chunk number i - 3, counted
\* from 1.
WriteNo(i) == i - 3
\* The offset field of a frame of the history: bytes 1 and 2, big-endian.
OffsetField(f) == f.head[2] * 256 + f.head[3]

\* C12: the offset field of every write frame equals the offset of the
\* chunk the frame carries, 1024 * (chunk number - 1), and the write frame
\* written last has an offset field that no write frame before it had (so no
\* two write frames of a run have the same offset field).
C12_OffsetField ==
    /\ \A i \in 1..Len(sent) :
          IsWrite(sent[i]) =>
              /\ OffsetField(sent[i]) = chunks[WriteNo(i)].offset
              /\ OffsetField(sent[i]) = 1024 * (WriteNo(i) - 1)
    /\ \A i \in 1..(Len(sent) - 1) :
          (IsWrite(sent[i]) /\ IsWrite(sent[Len(sent)])) =>
              OffsetField(sent[i]) # OffsetField(sent[Len(sent)])

\* s is an initial part of t.
IsPrefix(s, t) == Len(s) <= Len(t) /\ SubSeq(t, 1, Len(s)) = s

\* C13 as stated: check_bootloader_mode returns True exactly when the
\* read(4) after the probe returned at least one byte and the first of them
\* is 0xFF.
C13_AsStated ==
    mode # <<>> =>
        (mode = <<TRUE>> <=> (resp[1] # <<>> /\ resp[1][1] = 255))

\* C13 amended: check_bootloader_mode returns True exactly when data_read,
\* the bytes read(4) returned followed by the bytes the draining passes read,
\* is not empty and starts with 0xFF; when read(4) returned a byte, that is
\* the first byte of what read(4) returned.
C13_Detection ==
    mode # <<>> =>
        /\ mode = <<TRUE>> <=> (data_read # <<>> /\ data_read[1] = 255)
        /\ IsPrefix(resp[1], data_read)
        /\ resp[1] # <<>> => (mode = <<TRUE>> <=> resp[1][1] = 255)

C13_Witness ==
    /\ mode = <<TRUE>>
    /\ resp[1] = <<>>
    /\ data_read = <<255, 6>>

\* C14: check_bootloader_mode returns in every run, whatever the radio
\* sends and whenever it sends it (a run that never gets past
\* check_bootloader_mode never reaches a terminal outcome).
C14_Terminates == <>(mode # <<>>)

\* Number of write frames that were ACKed.
AckedWrites ==
    Cardinality({i \in 1..Len(sent) : IsWrite(sent[i]) /\ Acked(i)})

\* C15: a write frame directly follows another write frame only if that one
\* was ACKed; the write frame written n-th carries the offset of chunk n
\* (1024 * (n - 1), in the 16 bits of the field), so chunks go out in
\* ascending order from offset 0, none twice and none skipped; the frame
\* just written is the one of the chunk after the k chunks ACKed so far.
C15_ChunkOrder ==
    /\ \A i \in 2..Len(sent) :
          (IsWrite(sent[i]) /\ IsWrite(sent[i - 1])) => Acked(i - 1)
    /\ \A i \in 1..Len(sent) :
          IsWrite(sent[i]) =>
              /\ WriteNo(i) \in 1..246
              /\ OffsetField(sent[i]) = (1024 * (WriteNo(i) - 1)) % 65536
    /\ k = AckedWrites
    /\ NumWrites \in {k, k + 1}
    /\ pc = "write_read" =>
          /\ NumWrites = k + 1
          /\ chunks[k + 1].offset = 1024 * k
          /\ wire[2] * 256 + wire[3] = chunks[k + 1].offset % 65536
          /\ wire[4] = FwByte(fw_bytes, 1024 * k)
          /\ wire[1027] = FwByte(fw_bytes, 1024 * k + 1023)

C15_Witness ==
    /\ pc = "write_read"
    /\ k = 65
    /\ NumWrites = 66
    /\ OffsetField(sent[Len(sent)]) = 1024

\* C16: the read after an erase or write frame returns at most one byte.
\* If it returned the byte 0x06 the operation succeeded: after the lower
\* erase the upper erase follows, after the upper erase flash_firmware is
\* entered, the chunk of a write frame is counted.  If it
\* returned nothing or another byte the operation returned False without
\* raising: nothing was written after it, an erase ends the run with the
\* erase message, a write frame's chunk is not counted and flash_firmware
\* returns.
C16_AckRule ==
    \A i \in 2..Len(resp) :
        /\ Len(resp[i]) <= 1
        /\ resp[i] = <<6>> =>
              /\ IsLower(sent[i]) => (pc = "erase_write_1" \/ Len(sent) > i)
              /\ IsUpper(sent[i]) => (pc = "flash_begin" \/ ImageReady)
              /\ IsWrite(sent[i]) => total_bytes >= 1024 * WriteNo(i)
              /\ i = Len(sent) => outcome # ExitErase
        /\ resp[i] # <<6>> =>
              /\ i = Len(sent)
              /\ pc \in {"finish", "exit"}
              /\ IsErase(sent[i]) => (pc = "exit" /\ outcome = ExitErase)
              /\ IsWrite(sent[i]) =>
                    /\ total_bytes = 1024 * (WriteNo(i) - 1)
                    /\ pc = "finish" => outcome = Running
                    /\ pc = "exit" => outcome = MismatchExit

C16_Witness ==
    /\ pc = "finish"
    /\ Len(resp) = 5
    /\ resp[2] = <<6>>
    /\ resp[4] = <<6>>
    /\ resp[5] = <<21>>
    /\ total_bytes = 1024

\* C17: after append_checksum has been called on a list, the list has the
\* length and the contents it had before the call.
C17_NoSideEffect ==
    calls > 0 => (Len(data) = Len(orig) /\ data = orig)

\* The run has ended and every erase and write frame written was ACKed.
RunAcked ==
    /\ pc = "exit"
    /\ Len(resp) = Len(sent)
    /\ \A i \in 2..Len(resp) : resp[i] = <<6>>

\* C18: for a firmware file longer than MEMORY_SIZE: at most 246 write
\* frames are written, each with 1024 data bytes; the frame written after k
\* ACKed chunks carries the file's bytes 1024 * k .. 1024 * k + 1023, all below
\* MEMORY_SIZE; total_bytes never exceeds MEMORY_SIZE; and a run in which
\* every frame was ACKed has written 246 frames and MEMORY_SIZE bytes and
\* ends with exit code 0.
C18_Oversize ==
    fw_len > MEMORY_SIZE =>
        /\ NumWrites <= 246
        /\ total_bytes <= MEMORY_SIZE
        /\ \A i \in 1..Len(sent) : IsWrite(sent[i]) => sent[i].n = 1024 + 4
        /\ pc = "write_read" =>
              /\ Len(wire) = 1024 + 4
              /\ 1024 * k + 1024 <= MEMORY_SIZE
              /\ \A j \in 1..1024 : wire[3 + j] = RawByte(1024 * k + j - 1)
        /\ RunAcked =>
              /\ NumWrites = 246
              /\ total_bytes = MEMORY_SIZE
              /\ outcome = ExitOk

C18_Witness ==
    /\ fw_len = MEMORY_SIZE + 2000
    /\ RunAcked
    /\ NumWrites = 246
    /\ outcome = ExitOk

\* Byte p (0-based) of the firmware file followed by zero bytes.
ImageByte(p) == IF p < fw_len THEN RawByte(p) ELSE 0

\* C19: for a non-empty firmware file of at most MEMORY_SIZE bytes, the
\* write frame written after k ACKed chunks is the (k+1)-th write frame and
\* its 1024 data bytes are bytes 1024 * k .. 1024 * k + 1023 of the file
\* followed by zero bytes; a run in which every frame was ACKed has written
\* 246 such frames, MEMORY_SIZE bytes in all.
C19_ImageIntegrity ==
    fw_len \in 1..MEMORY_SIZE =>
        /\ pc = "write_read" =>
              /\ NumWrites = k + 1
              /\ Len(wire) = 1024 + 4
              /\ \A j \in 1..1024 : wire[3 + j] = ImageByte(1024 * k + j - 1)
        /\ RunAcked =>
              /\ NumWrites = 246
              /\ k = 246
              /\ 1024 * k = MEMORY_SIZE

C19_Witness ==
    /\ fw_len = 1025
    /\ pc = "write_read"
    /\ k = 1
    /\ wire[4] = RawByte(1024)
    /\ wire[5] = 0
    /\ wire[1027] = 0

\* C20: when the read after an erase or write frame has returned the byte
\* 0x06, which the method takes as the frame's ACK, that byte was sent by the
\* radio in answer to that frame, not to an earlier one.
C20_Attribution ==
    (Len(resp) >= 2 /\ Len(resp) = Len(sent) /\ resp[Len(resp)] = <<6>>) =>
        last_src = <<Len(sent)>>

====
